---- MODULE Spec2Model ----
(***************************************************************************)
(* A model of the risp interpreter of src/src/main.rs: the tokenizer, the  *)
(* recursive-descent parser, the environment chain, the evaluator and the  *)
(* read-eval-print loop of main.                                           *)
(*                                                                         *)
(* Text is a sequence of one-character strings; a token and a symbol name  *)
(* are such sequences too.  A number is an integer: the inputs of the      *)
(* model are written with decimal digits only, so no fraction, exponent,   *)
(* "inf" or "nan" token occurs.  The native procedure httpget performs a   *)
(* network retrieval and is left out of the root environment; no input of  *)
(* the model names it.                                                     *)
(***************************************************************************)
EXTENDS Integers, Sequences, FiniteSets, TLC

VARIABLES
  script,   \* which set of input lines the user types from
  stdin,    \* the next line read_line will return: <<line>>, or << >> at EOF
  running,  \* the loop of main has neither met EOF nor aborted
  expr,     \* the line last read by slurp_expr
  tokens,   \* tokenize(expr) for that line
  res,      \* what parse_eval returned for that line
  prev_st,  \* history: how the line before that one ended ("Ok", "Err", "None")
  env,      \* the root environment of main
  log,      \* the evaluator's steps during the last parse_eval, in order
  bound,    \* history: name -> value of the last successful def in the root
  captured, \* history: name of a root-defined closure -> bound when it was defined
  fname,    \* native-procedure harness: the procedure applied
  fargs,    \* native-procedure harness: its already-evaluated arguments
  fres      \* native-procedure harness: what it returned

vars == <<script, stdin, running, expr, tokens, res, prev_st, env, log, bound,
          captured, fname, fargs, fres>>

\* ------------------------------------------------------------------ bounds
MaxLen == 4
MaxArgs == 3
MaxNum == 2

\* ------------------------------------------------------------ value model
Bool(b) == [t |-> "Bool", b |-> b]
Symbol(s) == [t |-> "Symbol", s |-> s]
Number(n) == [t |-> "Number", n |-> n]
Str(s) == [t |-> "Str", s |-> s]
List(l) == [t |-> "List", l |-> l]
Func(f) == [t |-> "Func", f |-> f]
Lambda(params_exp, body_exp) ==
  [t |-> "Lambda", params_exp |-> params_exp, body_exp |-> body_exp]

Ok(v) == [st |-> "Ok", v |-> v]
Err(reason, detail) == [st |-> "Err", msg |-> <<reason, detail>>]
\* An index or slice out of range: the Rust runtime panics and the process aborts.
Panic == [st |-> "Panic"]
None == [st |-> "None"]

\* -------------------------------------------------------------- tokenizer
Digits == <<"0", "1", "2", "3", "4", "5", "6", "7", "8", "9">>

\* One pass of the body of `for c in expr.chars()` over the loop's variables.
tokenize_step(st, c) ==
  IF c = "\"" /\ st.in_quote
    THEN [tokens |-> Append(st.tokens, Append(st.buf_str, "\"")),
          buf_str |-> << >>, in_quote |-> FALSE]
  ELSE IF c = "\"" /\ ~st.in_quote
    THEN [tokens |-> IF Len(st.buf_str) > 0 THEN Append(st.tokens, st.buf_str)
                     ELSE st.tokens,
          buf_str |-> <<"\"">>, in_quote |-> TRUE]
  ELSE IF st.in_quote
    THEN [st EXCEPT !.buf_str = Append(@, c)]
  ELSE IF c = "(" \/ c = ")"
    THEN IF Len(st.buf_str) > 0
           THEN [st EXCEPT !.tokens = Append(Append(@, st.buf_str), <<c>>),
                           !.buf_str = << >>]
           ELSE [st EXCEPT !.tokens = Append(@, <<c>>)]
  ELSE IF c = " " \/ c = "\n"
    THEN [st EXCEPT !.tokens = Append(@, st.buf_str), !.buf_str = << >>]
  ELSE [st EXCEPT !.buf_str = Append(@, c)]

\* The loop over chars[lo..hi], in order, from the loop variables st (the test
\* on st has TLC compute the variables before it goes on with the loop).
RECURSIVE tokenize_loop(_, _, _, _)
tokenize_loop(st, chars, lo, hi) ==
  IF lo > hi \/ st.in_quote \notin BOOLEAN THEN st
  ELSE IF lo = hi THEN tokenize_step(st, chars[lo])
  ELSE LET mid == (lo + hi) \div 2
           left == tokenize_loop(st, chars, lo, mid)
       IN tokenize_loop(left, chars, mid + 1, hi)

tokenize(chars) ==
  LET st == tokenize_loop([tokens |-> << >>, buf_str |-> << >>, in_quote |-> FALSE],
                          chars, 1, Len(chars))
  IN Append(st.tokens, st.buf_str)

\* ----------------------------------------------------------------- parser
IsDigit(c) == \E d \in 1..10 : Digits[d] = c
DigitVal(c) == (CHOOSE d \in 1..10 : Digits[d] = c) - 1

RECURSIVE DecimalValue(_, _)
DecimalValue(ds, acc) ==
  IF ds = << >> THEN acc ELSE DecimalValue(Tail(ds), 10 * acc + DigitVal(Head(ds)))

\* str::parse::<f64> on the tokens of the model: an optional sign and digits.
parse_float(token) ==
  LET signed == Len(token) > 0 /\ token[1] \in {"+", "-"}
      ds == IF signed THEN Tail(token) ELSE token
  IN IF Len(ds) > 0 /\ \A j \in 1..Len(ds) : IsDigit(ds[j])
       THEN Ok(IF signed /\ token[1] = "-" THEN 0 - DecimalValue(ds, 0)
               ELSE DecimalValue(ds, 0))
       ELSE Err("invalid float literal", << >>)

parse_atom(token) ==
  IF token = <<"t", "r", "u", "e">> THEN Ok(Bool(TRUE))
  ELSE IF token = <<"f", "a", "l", "s", "e">> THEN Ok(Bool(FALSE))
  ELSE IF Len(token) > 0 /\ token[1] = "\""
    THEN IF Len(token) - 1 < 1 THEN Panic
         ELSE Ok(Str(SubSeq(token, 2, Len(token) - 1)))
  ELSE LET potential_float == parse_float(token)
       IN IF potential_float.st = "Ok" THEN Ok(Number(potential_float.v))
          ELSE Ok(Symbol(token))

RECURSIVE parse(_), read_seq(_, _)
parse(toks) ==
  IF toks = << >> THEN Err("could not get token", << >>)
  ELSE LET token == Head(toks)
           rest == Tail(toks)
       IN IF token = <<"(">> THEN read_seq(rest, << >>)
          ELSE IF token = <<")">> THEN Err("unexpected )", << >>)
          ELSE LET a == parse_atom(token)
               IN IF a.st = "Ok" THEN [st |-> "Ok", v |-> a.v, rest |-> rest] ELSE a

read_seq(xs, acc) ==
  IF xs = << >> \/ Len(acc) < 0 THEN Err("could not find closing )", << >>)
  ELSE IF Head(xs) = <<")">> THEN [st |-> "Ok", v |-> List(acc), rest |-> Tail(xs)]
  ELSE LET p == parse(xs)
       IN IF p.st = "Ok" THEN read_seq(p.rest, Append(acc, p.v)) ELSE p

\* ------------------------------------------------------- native procedures
parse_single_float(exp) ==
  IF exp.t = "Number" THEN Ok(exp.n) ELSE Err("expected a number", << >>)

RECURSIVE parse_list_of_floats_from(_, _, _)
parse_list_of_floats_from(args, i, acc) ==
  IF i > Len(args) THEN Ok(acc)
  ELSE LET x == parse_single_float(args[i])
       IN IF x.st = "Ok" THEN parse_list_of_floats_from(args, i + 1, Append(acc, x.v))
          ELSE x

parse_list_of_floats(args) == parse_list_of_floats_from(args, 1, << >>)

RECURSIVE Sum(_)
Sum(xs) == IF xs = << >> THEN 0 ELSE Head(xs) + Sum(Tail(xs))

\* The closures handed to ensure_tonicity by default_env, by invocation name.
check_fn(name, a, b) ==
  CASE name = <<"=">> -> a = b
    [] name = <<">">> -> a > b
    [] name = <<">", "=">> -> a >= b
    [] name = <<"<">> -> a < b
    [] name = <<"<", "=">> -> a =< b

\* A variant of tonicity_f that compares every number with the first one.
RECURSIVE tonicity_f_first(_, _, _)
tonicity_f_first(name, prev, xs) ==
  IF xs = << >> THEN TRUE
  ELSE check_fn(name, prev, Head(xs)) /\ tonicity_f_first(name, prev, Tail(xs))

RECURSIVE tonicity_f(_, _, _)
tonicity_f(name, prev, xs) ==
  IF xs = << >> THEN TRUE
  ELSE check_fn(name, prev, Head(xs)) /\ tonicity_f(name, Head(xs), Tail(xs))

ensure_tonicity(name, args) ==
  LET floats == parse_list_of_floats(args)
  IN IF floats.st # "Ok" THEN floats
     ELSE IF floats.v = << >> THEN Err("expected at least one number", << >>)
     ELSE Ok(Bool(tonicity_f(name, Head(floats.v), Tail(floats.v))))

num_func(args) ==
  IF Len(args) < 1 THEN Err("pass a max value", << >>)
  ELSE IF args[1].t # "Number" THEN Err("arg is not a number", << >>)
  ELSE IF Len(args) >= 2 /\ args[2].t # "Number" THEN Err("arg is not a number", << >>)
  ELSE LET max == args[1].n
           start == IF Len(args) < 2 THEN 0 ELSE args[2].n
       IN Ok(List([j \in 1..(IF max > start THEN max - start ELSE 0) |->
                     Number(start + j - 1)]))

plus_func(args) ==
  LET floats == parse_list_of_floats(args)
  IN IF floats.st # "Ok" THEN floats ELSE Ok(Number(Sum(floats.v)))

minus_func(args) ==
  LET floats == parse_list_of_floats(args)
  IN IF floats.st # "Ok" THEN floats
     ELSE IF floats.v = << >> THEN Err("expected at least one number", << >>)
     ELSE Ok(Number(Head(floats.v) - Sum(Tail(floats.v))))

CmpNames == {<<"=">>, <<">">>, <<">", "=">>, <<"<">>, <<"<", "=">>}
FuncNames == CmpNames \cup {<<"n", "u", "m">>, <<"+">>, <<"-">>}

\* The call f(args) of a RispExp::Func, f named by the key default_env binds it to.
apply_func(f, args) ==
  CASE f = <<"n", "u", "m">> -> num_func(args)
    [] f = <<"+">> -> plus_func(args)
    [] f = <<"-">> -> minus_func(args)
    [] f \in CmpNames -> ensure_tonicity(f, args)

default_env == [data |-> [k \in FuncNames |-> Func(k)], outer |-> << >>]

\* ------------------------------------------------------ environment chain
RECURSIVE env_get(_, _)
env_get(k, e) ==
  IF Len(k) > 0 /\ k[1] = ":" THEN Ok(Symbol(k))
  ELSE IF k \in DOMAIN e.data THEN Ok(e.data[k])
  ELSE IF e.outer # << >> THEN env_get(k, e.outer[1])
  ELSE None

\* The number of environments on the chain from e to the root.
RECURSIVE depth(_)
depth(e) == IF e.outer = << >> THEN 1 ELSE 1 + depth(e.outer[1])

\* HashMap::insert
insert(data, k, v) ==
  [x \in DOMAIN data \cup {k} |-> IF x = k THEN v ELSE data[x]]

RECURSIVE parse_list_of_symbol_strings_from(_, _, _)
parse_list_of_symbol_strings_from(list, i, acc) ==
  IF i > Len(list) THEN Ok(acc)
  ELSE IF list[i].t = "Symbol"
    THEN parse_list_of_symbol_strings_from(list, i + 1, Append(acc, list[i].s))
  ELSE Err("expected symbols in the argument list", << >>)

parse_list_of_symbol_strings(form) ==
  IF form.t # "List" THEN Err("expected args form to be a list", << >>)
  ELSE parse_list_of_symbol_strings_from(form.l, 1, << >>)

\* -------------------------------------------------------------- evaluator
\* eval takes the environment by mutable reference: the model's eval returns
\* [r, env, log], the result, the environment as the call left it (also when
\* the call failed) and the steps taken.  A step is recorded with the path p
\* of the form it belongs to: p \o <<0>> is the head of the form at p,
\* p \o <<i>> its i-th argument form and p \o <<Body>> the body of the
\* closure the form at p calls.
Body == 0 - 1

EvSpecial(p, s) == [k |-> "special", p |-> p, s |-> s]
EvHead(p, form, d) ==
  [k |-> "head", p |-> p, s |-> IF form.t = "Symbol" THEN form.s ELSE << >>, d |-> d]
EvArg(p, i, d) == [k |-> "arg", p |-> p, n |-> i, d |-> d]
EvArity(p, n) == [k |-> "arity", p |-> p, n |-> n]
EvCall(p, n) == [k |-> "call", p |-> p, n |-> n]
EvInvoke(p, n) == [k |-> "invoke", p |-> p, n |-> n]
EvDef(p, s, v, d) == [k |-> "def", p |-> p, s |-> s, v |-> v, d |-> d]
EvLookup(p, s, r) == [k |-> "lookup", p |-> p, s |-> s, r |-> r]
EvRet(p, pre, post) == [k |-> "ret", p |-> p, pre |-> pre, post |-> post]

SpecialNames == {<<"i", "f">>, <<"d", "e", "f">>, <<"f", "n">>}

eval_lambda_args(arg_forms) ==
  IF Len(arg_forms) < 1 THEN Err("expected args form", << >>)
  ELSE IF Len(arg_forms) < 2 THEN Err("expected second form", << >>)
  ELSE IF Len(arg_forms) > 2 THEN Err("fn definition can only have two forms ", << >>)
  ELSE Ok(Lambda(arg_forms[1], arg_forms[2]))

RECURSIVE eval(_, _, _), eval_forms_from(_, _, _, _, _, _), eval_if_args(_, _, _),
          eval_def_args(_, _, _), eval_built_in_form(_, _, _, _),
          env_for_lambda(_, _, _, _)

eval_forms_from(arg_forms, i, e, p, acc, lg) ==
  IF i > Len(arg_forms) THEN [r |-> Ok(acc), env |-> e, log |-> lg]
  ELSE LET x == eval(arg_forms[i], e, p \o <<i>>)
           lg2 == lg \o <<EvArg(p, i, depth(e))>> \o x.log
       IN IF x.r.st = "Ok"
            THEN eval_forms_from(arg_forms, i + 1, x.env, p, Append(acc, x.r.v), lg2)
            ELSE [r |-> x.r, env |-> x.env, log |-> lg2]

eval_forms(arg_forms, e, p) == eval_forms_from(arg_forms, 1, e, p, << >>, << >>)

eval_if_args(arg_forms, e, p) ==
  IF Len(arg_forms) < 1
    THEN [r |-> Err("expected test form", << >>), env |-> e, log |-> << >>]
  ELSE LET test_eval == eval(arg_forms[1], e, p \o <<1>>)
       IN IF test_eval.r.st # "Ok" THEN test_eval
          ELSE IF test_eval.r.v.t = "Bool"
            THEN LET form_idx == IF test_eval.r.v.b THEN 1 ELSE 2
                 IN IF Len(arg_forms) < form_idx + 1
                      THEN [r |-> Err("expected form idx=", <<form_idx>>),
                            env |-> test_eval.env, log |-> test_eval.log]
                      ELSE LET res_eval == eval(arg_forms[form_idx + 1], test_eval.env,
                                                p \o <<form_idx + 1>>)
                           IN [r |-> res_eval.r, env |-> res_eval.env,
                               log |-> test_eval.log \o res_eval.log]
          ELSE [r |-> Err("unexpected test form=", << >>),
                env |-> test_eval.env, log |-> test_eval.log]

\* A variant of eval_def_args that keeps an existing binding (an insert that
\* does not overwrite).
eval_def_args_keep_first(arg_forms, e, p) ==
  IF Len(arg_forms) < 1
    THEN [r |-> Err("expected first form", << >>), env |-> e, log |-> << >>]
  ELSE IF arg_forms[1].t # "Symbol"
    THEN [r |-> Err("expected first form to be a symbol", << >>), env |-> e, log |-> << >>]
  ELSE IF Len(arg_forms) < 2
    THEN [r |-> Err("expected second form", << >>), env |-> e, log |-> << >>]
  ELSE IF Len(arg_forms) > 2
    THEN [r |-> Err("def can only have two forms ", << >>), env |-> e, log |-> << >>]
  ELSE LET first_str == arg_forms[1].s
           second_eval == eval(arg_forms[2], e, p \o <<2>>)
       IN IF second_eval.r.st # "Ok" THEN second_eval
          ELSE [r |-> Ok(arg_forms[1]),
                env |-> IF first_str \in DOMAIN second_eval.env.data THEN second_eval.env
                        ELSE [second_eval.env EXCEPT
                                !.data = insert(@, first_str, second_eval.r.v)],
                log |-> Append(second_eval.log,
                               EvDef(p, first_str, second_eval.r.v, depth(e)))]

\* The chain c with k bound to v in the nearest environment that binds k, or in
\* c itself when none does.
RECURSIVE assign_in_chain(_, _, _)
assign_in_chain(c, k, v) ==
  IF k \in DOMAIN c.data \/ c.outer = << >> THEN [c EXCEPT !.data = insert(@, k, v)]
  ELSE [c EXCEPT !.outer = <<assign_in_chain(c.outer[1], k, v)>>]

RECURSIVE bound_in_chain(_, _)
bound_in_chain(c, k) ==
  k \in DOMAIN c.data \/ (c.outer # << >> /\ bound_in_chain(c.outer[1], k))

\* A variant of eval_def_args that assigns to the environment that already binds
\* the name, wherever on the chain it is.
eval_def_args_assign(arg_forms, e, p) ==
  IF Len(arg_forms) < 1
    THEN [r |-> Err("expected first form", << >>), env |-> e, log |-> << >>]
  ELSE IF arg_forms[1].t # "Symbol"
    THEN [r |-> Err("expected first form to be a symbol", << >>), env |-> e, log |-> << >>]
  ELSE IF Len(arg_forms) < 2
    THEN [r |-> Err("expected second form", << >>), env |-> e, log |-> << >>]
  ELSE IF Len(arg_forms) > 2
    THEN [r |-> Err("def can only have two forms ", << >>), env |-> e, log |-> << >>]
  ELSE LET first_str == arg_forms[1].s
           second_eval == eval(arg_forms[2], e, p \o <<2>>)
       IN IF second_eval.r.st # "Ok" THEN second_eval
          ELSE [r |-> Ok(arg_forms[1]),
                env |-> IF bound_in_chain(second_eval.env, first_str)
                          THEN assign_in_chain(second_eval.env, first_str, second_eval.r.v)
                          ELSE [second_eval.env EXCEPT
                                  !.data = insert(@, first_str, second_eval.r.v)],
                log |-> Append(second_eval.log,
                               EvDef(p, first_str, second_eval.r.v, depth(e)))]

eval_def_args(arg_forms, e, p) ==
  IF Len(arg_forms) < 1
    THEN [r |-> Err("expected first form", << >>), env |-> e, log |-> << >>]
  ELSE IF arg_forms[1].t # "Symbol"
    THEN [r |-> Err("expected first form to be a symbol", << >>), env |-> e, log |-> << >>]
  ELSE IF Len(arg_forms) < 2
    THEN [r |-> Err("expected second form", << >>), env |-> e, log |-> << >>]
  ELSE IF Len(arg_forms) > 2
    THEN [r |-> Err("def can only have two forms ", << >>), env |-> e, log |-> << >>]
  ELSE LET first_str == arg_forms[1].s
           second_eval == eval(arg_forms[2], e, p \o <<2>>)
       IN IF second_eval.r.st # "Ok" THEN second_eval
          ELSE [r |-> Ok(arg_forms[1]),
                env |-> [second_eval.env EXCEPT
                           !.data = insert(@, first_str, second_eval.r.v)],
                log |-> Append(second_eval.log,
                               EvDef(p, first_str, second_eval.r.v, depth(e)))]

\* A variant of eval_built_in_form that lets a binding of the name in the
\* environment take the form over.
eval_built_in_form_lookup_first(exp, arg_forms, e, p) ==
  IF exp.t = "Symbol" /\ exp.s \in SpecialNames /\ env_get(exp.s, e).st # "Ok"
    THEN LET x == CASE exp.s = <<"i", "f">> -> eval_if_args(arg_forms, e, p)
                    [] exp.s = <<"d", "e", "f">> -> eval_def_args(arg_forms, e, p)
                    [] exp.s = <<"f", "n">> ->
                         [r |-> eval_lambda_args(arg_forms), env |-> e, log |-> << >>]
         IN [some |-> TRUE, r |-> x.r, env |-> x.env,
             log |-> <<EvSpecial(p, exp.s)>> \o x.log]
    ELSE [some |-> FALSE]

\* Option<Result>: [some |-> FALSE] is None.
eval_built_in_form(exp, arg_forms, e, p) ==
  IF exp.t = "Symbol" /\ exp.s \in SpecialNames
    THEN LET x == CASE exp.s = <<"i", "f">> -> eval_if_args(arg_forms, e, p)
                    [] exp.s = <<"d", "e", "f">> -> eval_def_args(arg_forms, e, p)
                    [] exp.s = <<"f", "n">> ->
                         [r |-> eval_lambda_args(arg_forms), env |-> e, log |-> << >>]
         IN [some |-> TRUE, r |-> x.r, env |-> x.env,
             log |-> <<EvSpecial(p, exp.s)>> \o x.log]
    ELSE [some |-> FALSE]

\* The last value inserted under key k when ks and vs are zipped in order.
ZipLast(ks, vs, k) == vs[CHOOSE i \in 1..Len(ks) :
                           ks[i] = k /\ \A j \in (i + 1)..Len(ks) : ks[j] # k]

\* Returns [r, outer_env, log]: r is Ok(the call environment) or the error,
\* outer_env the caller's environment after the argument forms were evaluated.
env_for_lambda(params, arg_forms, outer_env, p) ==
  LET ks == parse_list_of_symbol_strings(params)
  IN IF ks.st # "Ok" THEN [r |-> ks, outer_env |-> outer_env, log |-> << >>]
     ELSE IF Len(ks.v) # Len(arg_forms)
       THEN [r |-> Err("expected {} arguments, got {}", <<Len(ks.v), Len(arg_forms)>>),
             outer_env |-> outer_env, log |-> <<EvArity(p, Len(arg_forms))>>]
     ELSE LET vs == eval_forms(arg_forms, outer_env, p)
              lg == <<EvArity(p, Len(arg_forms))>> \o vs.log
          IN IF vs.r.st # "Ok" THEN [r |-> vs.r, outer_env |-> vs.env, log |-> lg]
             ELSE [r |-> Ok([data |-> [k \in {ks.v[i] : i \in 1..Len(ks.v)} |->
                                          ZipLast(ks.v, vs.r.v, k)],
                             outer |-> <<vs.env>>]),
                   outer_env |-> vs.env,
                   log |-> Append(lg, EvCall(p, Len(arg_forms)))]

eval(exp, e, p) ==
  CASE exp.t = "Symbol" ->
         LET g == env_get(exp.s, e)
         IN [r |-> IF g.st = "Ok" THEN g ELSE Err("unexpected symbol k=", exp.s),
             env |-> e, log |-> <<EvLookup(p, exp.s, g)>>]
    [] exp.t \in {"Str", "Bool", "Number"} -> [r |-> Ok(exp), env |-> e, log |-> << >>]
    [] exp.t = "List" ->
         IF exp.l = << >>
           THEN [r |-> Err("expected a non-empty list", << >>), env |-> e, log |-> << >>]
         ELSE
           LET first_form == Head(exp.l)
               arg_forms == Tail(exp.l)
               built_in == eval_built_in_form(first_form, arg_forms, e, p)
           IN IF built_in.some
                THEN [r |-> built_in.r, env |-> built_in.env, log |-> built_in.log]
              ELSE
                LET first_eval == eval(first_form, e, p \o <<0>>)
                    lg == <<EvHead(p, first_form, depth(e))>> \o first_eval.log
                IN IF first_eval.r.st # "Ok"
                     THEN [r |-> first_eval.r, env |-> first_eval.env, log |-> lg]
                   ELSE IF first_eval.r.v.t = "Func"
                     THEN LET a == eval_forms(arg_forms, first_eval.env, p)
                          IN IF a.r.st # "Ok"
                               THEN [r |-> a.r, env |-> a.env, log |-> lg \o a.log]
                               ELSE [r |-> apply_func(first_eval.r.v.f, a.r.v),
                                     env |-> a.env,
                                     log |-> lg \o a.log
                                             \o <<EvInvoke(p, Len(arg_forms))>>]
                   ELSE IF first_eval.r.v.t = "Lambda"
                     THEN LET new_env == env_for_lambda(first_eval.r.v.params_exp,
                                                        arg_forms, first_eval.env, p)
                          IN IF new_env.r.st # "Ok"
                               THEN [r |-> new_env.r, env |-> new_env.outer_env,
                                     log |-> lg \o new_env.log]
                               ELSE LET b == eval(first_eval.r.v.body_exp, new_env.r.v,
                                                  p \o <<Body>>)
                                    IN [r |-> b.r, env |-> b.env.outer[1],
                                        log |-> lg \o new_env.log \o b.log
                                                \o <<EvRet(p, new_env.outer_env,
                                                           b.env.outer[1])>>]
                   ELSE [r |-> Err("first form must be a function", << >>),
                         env |-> first_eval.env, log |-> lg]
    [] exp.t \in {"Func", "Lambda"} ->
         [r |-> Err("unexpected form", << >>), env |-> e, log |-> << >>]

\* ------------------------------------------------------------------- repl
parse_eval(line, e) ==
  LET parsed == parse(tokenize(line))
  IN IF parsed.st # "Ok" THEN [r |-> parsed, env |-> e, log |-> << >>]
     ELSE eval(parsed.v, e, << >>)

\* ---------------------------------------------------------- input lines
\* The lines a user types, as read_line returns them: each ends in a newline.
\* (def y 1)
L_def_y_1 == <<"(", "d", "e", "f", " ", "y", " ", "1", ")", "\n">>
\* (def y 2)
L_def_y_2 == <<"(", "d", "e", "f", " ", "y", " ", "2", ")", "\n">>
\* (def f (fn (x)(+ x y)))
L_def_f == <<"(", "d", "e", "f", " ", "f", " ", "(", "f", "n", " ", "(", "x", ")", "(", "+", " ", "x", " ", "y", ")", ")", ")", "\n">>
\* (f 10)
L_f_10 == <<"(", "f", " ", "1", "0", ")", "\n">>
\* y
L_y == <<"y", "\n">>
\* (f)
L_f == <<"(", "f", ")", "\n">>

\* (def k (fn ()x))
L_def_k == <<"(", "d", "e", "f", " ", "k", " ", "(", "f", "n", " ", "(", ")", "x", ")", ")", "\n">>
\* (def g (fn (x)(k)))
L_def_g == <<"(", "d", "e", "f", " ", "g", " ", "(", "f", "n", " ", "(", "x", ")", "(", "k", ")", ")", ")", "\n">>
\* (g 5)
L_g_5 == <<"(", "g", " ", "5", ")", "\n">>
\* (k)
L_k == <<"(", "k", ")", "\n">>
\* (def mk (fn (a)(fn ()a)))
L_def_mk == <<"(", "d", "e", "f", " ", "m", "k", " ", "(", "f", "n", " ", "(", "a", ")", "(", "f", "n", " ", "(", ")", "a", ")", ")", ")", "\n">>
\* (def h (mk 1))
L_def_h == <<"(", "d", "e", "f", " ", "h", " ", "(", "m", "k", " ", "1", ")", ")", "\n">>
\* (h)
L_h == <<"(", "h", ")", "\n">>

\* (def x 5)
L_def_x_5 == <<"(", "d", "e", "f", " ", "x", " ", "5", ")", "\n">>
\* (def x 6)
L_def_x_6 == <<"(", "d", "e", "f", " ", "x", " ", "6", ")", "\n">>
\* x
L_x == <<"x", "\n">>
\* q
L_q == <<"q", "\n">>
\* (def :k 5)
L_def_kw == <<"(", "d", "e", "f", " ", ":", "k", " ", "5", ")", "\n">>
\* :k
L_kw == <<":", "k", "\n">>
\* (+ x true)
L_plus_x_true == <<"(", "+", " ", "x", " ", "t", "r", "u", "e", ")", "\n">>
\* (def x q)
L_def_x_q == <<"(", "d", "e", "f", " ", "x", " ", "q", ")", "\n">>
\* )
L_rparen == <<")", "\n">>
\* (def 5 1)
L_def_5_1 == <<"(", "d", "e", "f", " ", "5", " ", "1", ")", "\n">>
\* (def p x)
L_def_p_x == <<"(", "d", "e", "f", " ", "p", " ", "x", ")", "\n">>
\* p
L_p == <<"p", "\n">>

\* (def z 0)
L_def_z_0 == <<"(", "d", "e", "f", " ", "z", " ", "0", ")", "\n">>
\* (def inner (fn ()(def z 9)))
L_def_inner == <<"(", "d", "e", "f", " ", "i", "n", "n", "e", "r", " ", "(", "f", "n", " ", "(", ")", "(", "d", "e", "f", " ", "z", " ", "9", ")", ")", ")", "\n">>
\* (inner)
L_inner == <<"(", "i", "n", "n", "e", "r", ")", "\n">>
\* (def outer (fn (z)((fn (a b)b)(inner)z)))
L_def_outer == <<"(", "d", "e", "f", " ", "o", "u", "t", "e", "r", " ", "(", "f", "n", " ", "(", "z", ")", "(", "(", "f", "n", " ", "(", "a", " ", "b", ")", "b", ")", "(", "i", "n", "n", "e", "r", ")", "z", ")", ")", ")", "\n">>
\* (outer 5)
L_outer_5 == <<"(", "o", "u", "t", "e", "r", " ", "5", ")", "\n">>
\* z
L_z == <<"z", "\n">>
\* (def setz (fn (v)(def z v)))
L_def_setz == <<"(", "d", "e", "f", " ", "s", "e", "t", "z", " ", "(", "f", "n", " ", "(", "v", ")", "(", "d", "e", "f", " ", "z", " ", "v", ")", ")", ")", "\n">>
\* (setz 3)
L_setz_3 == <<"(", "s", "e", "t", "z", " ", "3", ")", "\n">>

\* (def if +)
L_def_if == <<"(", "d", "e", "f", " ", "i", "f", " ", "+", ")", "\n">>
\* (def def 6)
L_def_def == <<"(", "d", "e", "f", " ", "d", "e", "f", " ", "6", ")", "\n">>
\* (def fn -)
L_def_fn == <<"(", "d", "e", "f", " ", "f", "n", " ", "-", ")", "\n">>
\* (if true 1 2)
L_if_true == <<"(", "i", "f", " ", "t", "r", "u", "e", " ", "1", " ", "2", ")", "\n">>
\* (if (< 2 1)1 2)
L_if_lt == <<"(", "i", "f", " ", "(", "<", " ", "2", " ", "1", ")", "1", " ", "2", ")", "\n">>
\* (fn (x)x)
L_fn_x == <<"(", "f", "n", " ", "(", "x", ")", "x", ")", "\n">>
\* ((fn (if)(if true if 2))7)
L_param_if == <<"(", "(", "f", "n", " ", "(", "i", "f", ")", "(", "i", "f", " ", "t", "r", "u", "e", " ", "i", "f", " ", "2", ")", ")", "7", ")", "\n">>
\* ((fn (def)(def w def))8)
L_param_def == <<"(", "(", "f", "n", " ", "(", "d", "e", "f", ")", "(", "d", "e", "f", " ", "w", " ", "d", "e", "f", ")", ")", "8", ")", "\n">>
\* ((fn (fn)((fn (u)fn)1))9)
L_param_fn == <<"(", "(", "f", "n", " ", "(", "f", "n", ")", "(", "(", "f", "n", " ", "(", "u", ")", "f", "n", ")", "1", ")", ")", "9", ")", "\n">>
\* if
L_if == <<"i", "f", "\n">>
\* (+ 1 2)
L_plus_if == <<"(", "+", " ", "1", " ", "2", ")", "\n">>

\* (def f0 (fn ()1))
L_def_f0 == <<"(", "d", "e", "f", " ", "f", "0", " ", "(", "f", "n", " ", "(", ")", "1", ")", ")", "\n">>
\* (f0 (def c 1))
L_f0_def == <<"(", "f", "0", " ", "(", "d", "e", "f", " ", "c", " ", "1", ")", ")", "\n">>
\* c
L_c == <<"c", "\n">>
\* (+ (def a 1)(def a 2))
L_plus_defs == <<"(", "+", " ", "(", "d", "e", "f", " ", "a", " ", "1", ")", "(", "d", "e", "f", " ", "a", " ", "2", ")", ")", "\n">>
\* a
L_a == <<"a", "\n">>
\* ((fn (x y)y)(def b 1)b)
L_second == <<"(", "(", "f", "n", " ", "(", "x", " ", "y", ")", "y", ")", "(", "d", "e", "f", " ", "b", " ", "1", ")", "b", ")", "\n">>
\* (+ d (def d 1))
L_plus_d_def == <<"(", "+", " ", "d", " ", "(", "d", "e", "f", " ", "d", " ", "1", ")", ")", "\n">>
\* d
L_d == <<"d", "\n">>
\* (- 5 1 2)
L_minus == <<"(", "-", " ", "5", " ", "1", " ", "2", ")", "\n">>
\* (f0)
L_f0 == <<"(", "f", "0", ")", "\n">>
\* (def one (fn (x)x))
L_one == <<"(", "d", "e", "f", " ", "o", "n", "e", " ", "(", "f", "n", " ", "(", "x", ")", "x", ")", ")", "\n">>
\* (one (def e 1)(def e 2))
L_one_2 == <<"(", "o", "n", "e", " ", "(", "d", "e", "f", " ", "e", " ", "1", ")", "(", "d", "e", "f", " ", "e", " ", "2", ")", ")", "\n">>

\* (repeat (fn (n)(+ n n))(num 3))
L_repeat_fn == <<"(", "r", "e", "p", "e", "a", "t", " ", "(", "f", "n", " ", "(", "n", ")", "(", "+", " ", "n", " ", "n", ")", ")", "(", "n", "u", "m", " ", "3", ")", ")", "\n">>
\* (def dbl (fn (n)(+ n n)))
L_def_dbl == <<"(", "d", "e", "f", " ", "d", "b", "l", " ", "(", "f", "n", " ", "(", "n", ")", "(", "+", " ", "n", " ", "n", ")", ")", ")", "\n">>
\* (repeat dbl (num 2))
L_repeat_dbl == <<"(", "r", "e", "p", "e", "a", "t", " ", "d", "b", "l", " ", "(", "n", "u", "m", " ", "2", ")", ")", "\n">>
\* (num 3)
L_num_3 == <<"(", "n", "u", "m", " ", "3", ")", "\n">>
\* (num 3 1)
L_num_3_1 == <<"(", "n", "u", "m", " ", "3", " ", "1", ")", "\n">>
\* (dbl 2)
L_dbl_2 == <<"(", "d", "b", "l", " ", "2", ")", "\n">>

\* (fn (n)(+ n n))
L_fn_n == <<"(", "f", "n", " ", "(", "n", ")", "(", "+", " ", "n", " ", "n", ")", ")", "\n">>
\* (num 2)
L_num_2 == <<"(", "n", "u", "m", " ", "2", ")", "\n">>

ScriptNames == {"byref", "lexical", "rebind", "frame", "forms", "order", "repeat"}

Lines(sc) ==
  CASE sc = "byref" -> {L_def_y_1, L_def_y_2, L_def_f, L_f_10, L_y, L_f}
    [] sc = "lexical" -> {L_def_k, L_def_g, L_g_5, L_k, L_def_mk, L_def_h, L_h}
    [] sc = "rebind" -> {L_def_x_5, L_def_x_6, L_x, L_q, L_def_kw, L_kw, L_plus_x_true, L_def_x_q, L_rparen, L_def_5_1, L_def_p_x, L_p}
    [] sc = "frame" -> {L_def_z_0, L_def_inner, L_inner, L_def_outer, L_outer_5, L_z, L_def_setz, L_setz_3}
    [] sc = "forms" -> {L_def_if, L_def_def, L_def_fn, L_if_true, L_if_lt, L_fn_x, L_param_if, L_param_def, L_param_fn, L_if, L_plus_if}
    [] sc = "order" -> {L_def_f0, L_f0_def, L_c, L_plus_defs, L_a, L_second, L_plus_d_def, L_d, L_minus, L_f0, L_one, L_one_2}
    [] sc = "repeat" -> {L_repeat_fn, L_def_dbl, L_repeat_dbl, L_num_3, L_num_3_1, L_dbl_2}
    [] sc = "text" -> {}

\* The characters of the short texts given to parse_eval one at a time.
Alphabet == {"(", ")", " ", "\n", "\"", ";", "a", "1", "+"}
Texts == UNION {[1..n -> Alphabet] : n \in 0..MaxLen}

\* What read_line may return next: a line of the script, or EOF.
Inputs(sc) == {<<l>> : l \in Lines(sc)} \cup {<< >>}

\* History of the root environment, from the def steps taken in it.
NumbersOf(b) == [k \in {x \in DOMAIN b : b[x].t = "Number"} |-> b[k]]
Without(f, k) == [x \in DOMAIN f \ {k} |-> f[x]]

RECURSIVE Track(_, _, _, _)
Track(lg, i, b, c) ==
  IF i > Len(lg) THEN [bound |-> b, captured |-> c]
  ELSE LET ev == lg[i]
       IN IF ev.k = "def" /\ ev.d = 1 /\ ~(Len(ev.s) > 0 /\ ev.s[1] = ":")
            THEN Track(lg, i + 1, insert(b, ev.s, ev.v),
                       IF ev.v.t = "Lambda" THEN insert(c, ev.s, NumbersOf(b))
                       ELSE Without(c, ev.s))
            ELSE Track(lg, i + 1, b, c)

\* A variant of main_env that starts from a fresh default_env after an error.
main_env_reset(pe) == IF pe.r.st = "Ok" THEN pe.env ELSE default_env

\* main keeps one environment for the whole loop: what parse_eval left in it,
\* whether it returned Ok or Err, is what the next line is evaluated in.
main_env(pe) == pe.env

Repl ==
  /\ running
  /\ stdin # << >>
  /\ LET line == stdin[1]
         pe == parse_eval(line, env)
         tr == Track(pe.log, 1, bound, captured)
     IN /\ expr' = line
        /\ tokens' = tokenize(line)
        /\ res' = pe.r
        /\ prev_st' = res.st
        /\ env' = main_env(pe)
        /\ log' = pe.log
        /\ bound' = tr.bound
        /\ captured' = tr.captured
        /\ running' = (pe.r.st # "Panic")
  /\ stdin' \in Inputs(script)
  /\ UNCHANGED <<script, fname, fargs, fres>>

\* slurp_expr returns Err at EOF and main leaves its loop.
Eof ==
  /\ running
  /\ stdin = << >>
  /\ running' = FALSE
  /\ UNCHANGED <<script, stdin, expr, tokens, res, prev_st, env, log, bound,
                 captured, fname, fargs, fres>>

InitRest ==
  /\ running = TRUE
  /\ expr = << >>
  /\ tokens = << >>
  /\ res = None
  /\ prev_st = "None"
  /\ env = default_env
  /\ log = << >>
  /\ bound = << >>
  /\ captured = << >>
  /\ fname = << >>
  /\ fargs = << >>
  /\ fres = None

Init ==
  /\ script \in ScriptNames
  /\ stdin \in Inputs(script)
  /\ InitRest

Next == Repl \/ Eof

Spec == Init /\ [][Next]_vars

\* parse_eval on every short text, one text per run of the loop.
InitTok ==
  /\ script = "text"
  /\ stdin \in {<<t>> : t \in Texts}
  /\ InitRest

SpecTok == InitTok /\ [][Next]_vars

\* A native procedure of default_env applied to every short argument list.
ArgValues == {Number(n) : n \in 0..MaxNum} \cup {Bool(TRUE), Str(<<"a">>)}
ArgLists == UNION {[1..n -> ArgValues] : n \in 0..MaxArgs}

InitCmp ==
  /\ script = "native"
  /\ stdin = << >>
  /\ running = FALSE
  /\ expr = << >>
  /\ tokens = << >>
  /\ res = None
  /\ prev_st = "None"
  /\ env = default_env
  /\ log = << >>
  /\ bound = << >>
  /\ captured = << >>
  /\ fname \in FuncNames
  /\ fargs \in ArgLists
  /\ fres = None

Apply ==
  /\ fres = None
  /\ fres' = apply_func(fname, fargs)
  /\ UNCHANGED <<script, stdin, running, expr, tokens, res, prev_st, env, log, bound,
                 captured, fname, fargs>>

NextCmp == Apply

SpecCmp == InitCmp /\ [][NextCmp]_vars

\* ----------------------------------------------------------------- claims
n_if == <<"i", "f">>
n_def == <<"d", "e", "f">>
n_fn == <<"f", "n">>
UnboundSymbol(n) == Err("unexpected symbol k=", n)
Events == 1..Len(log)

\* The forms (f) and ((fn (s) (f)) 5): a call of f from the top level, and the
\* same call made inside an activation whose parameter is s.
CallForm(f) == List(<<Symbol(f)>>)
CallInside(f, s) ==
  List(<<List(<<Symbol(n_fn), List(<<Symbol(s)>>), CallForm(f)>>), Number(5)>>)
ParamProbe == {<<"x">>, <<"a">>, <<"y">>}

\* C1: a closure's free symbols resolve in the environment of its fn form, never
\* in the caller's activation.  So calling a root-defined closure of no
\* parameters gives the same result from the top level and from inside an
\* activation whose parameter has any other name; and the closure made by
\* (mk 1) still resolves mk's parameter a (to 1) after mk has returned.
C1_LexicalScope ==
  /\ \A f \in DOMAIN bound :
       (bound[f].t = "Lambda" /\ bound[f].params_exp = List(<< >>)) =>
         \A s \in ParamProbe \ {f} :
           eval(CallInside(f, s), env, << >>).r = eval(CallForm(f), env, << >>).r
  /\ (expr = L_h /\ <<"h">> \in DOMAIN bound) => res = Ok(Number(1))

\* C2: with f defined as (fn (x) (+ x y)) in the root and y bound to a number
\* there, (f 10) resolves y to the value of the latest def of y, whatever y was
\* when f was defined, and yields 10 plus that value.
C2_LaterDefVisible ==
  (/\ expr = L_f_10
   /\ <<"f">> \in DOMAIN captured
   /\ <<"y">> \in DOMAIN bound
   /\ bound[<<"y">>].t = "Number") =>
     /\ res = Ok(Number(10 + bound[<<"y">>].n))
     /\ \E i \in Events : log[i].k = "lookup" /\ log[i].s = <<"y">>
     /\ \A i \in Events : (log[i].k = "lookup" /\ log[i].s = <<"y">>) =>
                            log[i].r = Ok(bound[<<"y">>])

\* (def y 1), (def f ...), (def y 2), then (f 10) gave 12.
C2_Witness ==
  /\ expr = L_f_10
  /\ <<"f">> \in DOMAIN captured
  /\ <<"y">> \in DOMAIN captured[<<"f">>]
  /\ captured[<<"f">>][<<"y">>] = Number(1)
  /\ <<"y">> \in DOMAIN bound
  /\ bound[<<"y">>] = Number(2)
  /\ res = Ok(Number(12))

ProbeNames == {<<"x">>, <<"q">>, <<"p">>, <<"z">>, <<"a">>, <<"c">>, <<"w">>, << >>}

\* C3: a name (not starting with ':') evaluates in the root environment to the
\* value of its latest successful def there, after any number of later lines,
\* failed ones included; a name never defined there fails as an unbound symbol.
C3_DefThenLookup ==
  /\ \A n \in DOMAIN bound : eval(Symbol(n), env, << >>).r = Ok(bound[n])
  /\ \A n \in ProbeNames \ DOMAIN bound :
       eval(Symbol(n), env, << >>).r = UnboundSymbol(n)
  /\ expr = L_x =>
       res = IF <<"x">> \in DOMAIN bound THEN Ok(bound[<<"x">>])
             ELSE UnboundSymbol(<<"x">>)
  /\ expr = L_q => res = UnboundSymbol(<<"q">>)

\* x was defined, a later line failed, and the line x after it printed x's value.
C3_Witness ==
  /\ expr = L_x
  /\ prev_st = "Err"
  /\ <<"x">> \in DOMAIN bound
  /\ res = Ok(bound[<<"x">>])
  /\ res.v.t = "Number"

\* C4: when a closure call returns, the caller's environment and every
\* environment above it are what they were when the body started: a def in the
\* body changed the call's own environment only.
C4_DefIsLocal ==
  \A i \in Events : log[i].k = "ret" => log[i].post = log[i].pre

\* (outer 5): inner's body ran (def z 9) two calls deep, with z bound in the
\* caller (outer's parameter) and in the root; outer still read 5, the root 0.
C4_Witness ==
  /\ expr = L_outer_5
  /\ res = Ok(Number(5))
  /\ <<"z">> \in DOMAIN env.data
  /\ env.data[<<"z">>] = Number(0)
  /\ \E i \in Events : log[i].k = "def" /\ log[i].s = <<"z">> /\ log[i].d = 3
                       /\ log[i].v = Number(9)
  /\ \E i \in Events : log[i].k = "ret"

Blank(t) == \A i \in 1..Len(t) : t[i] \in {" ", "\n"}
CommentOnly(t) ==
  \E i \in 1..Len(t) : /\ t[i] = ";"
                       /\ \A j \in 1..(i - 1) : t[j] = " "
                       /\ \A j \in (i + 1)..(Len(t) - 1) : t[j] # "\n"

Holds(name, a, b) ==
  \/ name = <<"=">> /\ a = b
  \/ name = <<">">> /\ a > b
  \/ name = <<">", "=">> /\ a >= b
  \/ name = <<"<">> /\ a < b
  \/ name = <<"<", "=">> /\ a =< b
AllNumbers(args) == \A i \in 1..Len(args) : args[i].t = "Number"

\* C6: a comparison procedure applied to one or more Numbers returns
\* Boolean(true) exactly when its relation holds between every two consecutive
\* arguments; applied to no argument it fails with "expected at least one
\* number"; applied to an argument that is not a Number it fails.
C6_Comparison ==
  (fname \in CmpNames /\ fres # None) =>
    /\ (AllNumbers(fargs) /\ Len(fargs) >= 1) =>
         fres = Ok(Bool(\A i \in 1..(Len(fargs) - 1) :
                          Holds(fname, fargs[i].n, fargs[i + 1].n)))
    /\ Len(fargs) = 0 => fres = Err("expected at least one number", << >>)
    /\ ~AllNumbers(fargs) => fres.st = "Err"

\* (< 0 2 1): the first pair is in order, the second is not.
C6_Witness ==
  /\ fname = <<"<">>
  /\ fargs = <<Number(0), Number(2), Number(1)>>
  /\ fres = Ok(Bool(FALSE))

\* C7: a list whose first element is the symbol if, def or fn is evaluated by
\* the special form, in every environment: the evaluator never takes such a
\* symbol as the head of an application, and (if true 1 2) yields 1.
C7_SpecialFormsFirst ==
  /\ \A i \in Events : log[i].k = "head" => log[i].s \notin SpecialNames
  /\ expr = L_if_true => res = Ok(Number(1))
  /\ expr = L_param_if => res = Ok(Number(7))
  /\ expr = L_fn_x => (res.st = "Ok" /\ res.v.t = "Lambda")

\* if, def and fn are all bound in the root by def, and the body of a closure
\* whose parameter is named if was evaluated by the special form.
C7_Witness ==
  /\ {n_if, n_def, n_fn} \subseteq DOMAIN env.data
  /\ expr = L_param_if
  /\ res = Ok(Number(7))
  /\ \E i \in Events : log[i].k = "special" /\ log[i].s = n_if /\ log[i].p = <<Body>>

\* The list (repeat f l) should yield: f applied to each element of l, in order.
RepeatExpected(f_form, l_form) ==
  LET l == eval(l_form, env, << >>).r.v.l
  IN Ok(List([i \in 1..Len(l) |-> eval(List(<<f_form, l[i]>>), env, << >>).r.v]))

\* C8: (repeat f l) with f a closure of one parameter and l a list yields the
\* list of f applied to each element of l, in order.
C8_RepeatMaps ==
  /\ expr = L_repeat_fn =>
       res = RepeatExpected(parse(tokenize(L_fn_n)).v, parse(tokenize(L_num_3)).v)
  /\ (expr = L_repeat_dbl /\ <<"d", "b", "l">> \in DOMAIN bound) =>
       res = RepeatExpected(Symbol(<<"d", "b", "l">>), parse(tokenize(L_num_2)).v)

\* C9: no token returned by tokenize is the empty string.
C9_NoEmptyToken ==
  \A i \in 1..Len(tokens) : tokens[i] # << >>

\* The steps of the application at path p: its head, its arguments, the arity
\* check of a closure, the construction of the call environment, the
\* invocation of a native procedure.
IsArgOf(j, p, a) == log[j].k = "arg" /\ log[j].p = p /\ log[j].n = a
ArgsInOrder ==
  \A h \in Events : log[h].k = "head" =>
    /\ \A j \in Events :
         (log[j].k \in {"arg", "arity", "call", "invoke"} /\ log[j].p = log[h].p) => j > h
    /\ \A j \in Events : (log[j].k = "arg" /\ log[j].p = log[h].p) =>
         /\ log[j].d = log[h].d
         /\ log[j].n > 1 => \E j0 \in 1..(j - 1) : IsArgOf(j0, log[h].p, log[j].n - 1)
         /\ \A j2 \in Events : (log[j2].k = "arg" /\ log[j2].p = log[h].p) =>
              (log[j].n < log[j2].n <=> j < j2)
AppliedAfterArgs(kinds) ==
  \A c \in Events : log[c].k \in kinds =>
    \A a \in 1..log[c].n : \E j \in 1..(c - 1) : IsArgOf(j, log[c].p, a)

\* C10 as written: the head first, then every argument form once, left to
\* right, in the caller's environment, and only then the callee: the arity
\* check and the call environment of a closure, the invocation of a native
\* procedure; so a def in an argument form is in effect also when the
\* application fails for arity.
C10_ArgsBeforeApply ==
  /\ ArgsInOrder
  /\ AppliedAfterArgs({"arity", "call", "invoke"})
  /\ (expr = L_f0_def /\ <<"f", "0">> \in DOMAIN bound) => <<"c">> \in DOMAIN env.data

\* C10, what the code does instead: the head first; then, for a closure, the arity check on the
\* number of argument forms, before any argument form is evaluated; then the
\* argument forms once each, left to right, in the caller's environment, up to
\* the first that fails; and only after all of them the call environment or the
\* native invocation.  An application that fails for arity has evaluated no
\* argument form, so a def in one has not taken effect.
C10_ArityThenArgs ==
  /\ ArgsInOrder
  /\ AppliedAfterArgs({"call", "invoke"})
  /\ \A c \in Events : log[c].k = "arity" =>
       \A j \in Events : (log[j].k = "arg" /\ log[j].p = log[c].p) => j > c
  /\ (expr = L_f0_def /\ <<"f", "0">> \in DOMAIN bound) =>
       /\ res = Err("expected {} arguments, got {}", <<0, 1>>)
       /\ \A j \in Events : log[j].k \notin {"arg", "def"}
       /\ <<"c">> \in DOMAIN env.data <=> <<"c">> \in DOMAIN bound

\* (f0 (def c 1)) failed for arity and c is still unbound.
C10_Witness ==
  /\ expr = L_f0_def
  /\ res = Err("expected {} arguments, got {}", <<0, 1>>)
  /\ <<"c">> \notin DOMAIN env.data
  /\ \E j \in Events : log[j].k = "arity" /\ log[j].n = 1

\* A token that opens a quoted string and never closes it: it starts with the
\* double quote and does not end with a second one.
Unclosed(token) ==
  /\ Len(token) > 0
  /\ token[1] = "\""
  /\ (Len(token) = 1 \/ token[Len(token)] # "\"")

\* C11: every input text ends in a result value or in an error that carries a
\* reason string, never in an abort of the process; and every token that opens
\* a quoted string that is never closed, the lone double quote at the end of
\* the input included, is made a String by parse_atom.
C11_ValueOrError ==
  /\ res # None =>
        \/ res.st = "Ok"
        \/ res.st = "Err" /\ res.msg[1] \in STRING
  /\ \A i \in 1..Len(tokens) :
        Unclosed(tokens[i]) =>
          LET a == parse_atom(tokens[i])
          IN a.st = "Ok" /\ a.v.t = "Str"

====
